---- MODULE Spec2Model ----
(***************************************************************************)
(* Othello AI player (agent.py): depth-limited minimax and alpha-beta      *)
(* search with an optional state cache and optional node ordering.         *)
(*                                                                         *)
(* Boards are tuples of rows, rows are tuples of cells (0 empty, 1 dark,   *)
(* 2 light).  A move is <<i, j>> with i the column and j the row, both     *)
(* counted from 0 as in the Python code; the cell of move <<i, j>> is      *)
(* board[j + 1][i + 1] because TLA+ tuples are indexed from 1.             *)
(***************************************************************************)
EXTENDS Integers, Sequences, FiniteSets, TLC

\* Side length of the square board (len(board)).
N == 4

\* float("inf") / float("-inf"): strictly beyond every utility, which is a
\* difference of two disc counts and so lies in -(N*N) .. N*N.
Inf == N * N + 1
NegInf == 0 - Inf

\* Python's None as a move.
None == <<>>

\* The empty dict() the selectors install in the module global `cache`.
EmptyDict == [b \in {} |-> 0]

(***************************************************************************)
(* othello_shared: the move oracle imported by agent.py.                   *)
(***************************************************************************)
Dirs == << <<0, 1>>, <<1, 1>>, <<1, 0>>, <<1, -1>>,
           <<0, -1>>, <<-1, -1>>, <<-1, 0>>, <<-1, 1>> >>

Cell(board, u, v) == board[v + 1][u + 1]

OnBoard(u, v) == u >= 0 /\ u < N /\ v >= 0 /\ v < N

\* One direction of find_lines: the run of opponent discs starting at
\* <<u, v>> that is closed by a disc of player; <<>> when the run is open.
RECURSIVE WalkLine(_, _, _, _, _, _, _)
WalkLine(board, u, v, xdir, ydir, player, line) ==
    IF ~OnBoard(u, v) THEN <<>>
    ELSE IF Cell(board, u, v) = 0 THEN <<>>
    ELSE IF Cell(board, u, v) = player THEN line
    ELSE WalkLine(board, u + xdir, v + ydir, xdir, ydir, player,
                  Append(line, <<u, v>>))

NonEmptySeq(s) == s # <<>>

find_lines(board, i, j, player) ==
    SelectSeq([d \in 1..8 |->
                  WalkLine(board, i + Dirs[d][1], j + Dirs[d][2],
                           Dirs[d][1], Dirs[d][2], player, <<>>)],
              NonEmptySeq)

\* All cells in the enumeration order of get_possible_moves: column i in the
\* outer loop, row j in the inner loop.
AllCells == [k \in 1..(N * N) |-> <<(k - 1) \div N, (k - 1) % N>>]

get_possible_moves(board, player) ==
    LET legal(m) == /\ Cell(board, m[1], m[2]) = 0
                    /\ find_lines(board, m[1], m[2], player) # <<>>
    IN  SelectSeq(AllCells, legal)

play_move(board, player, i, j) ==
    LET lines == find_lines(board, i, j, player)
        flipped == UNION {{lines[l][k] : k \in 1..Len(lines[l])} :
                          l \in 1..Len(lines)}
    IN  [v \in 1..N |->
            [u \in 1..N |->
                IF <<u - 1, v - 1>> = <<i, j>> \/ <<u - 1, v - 1>> \in flipped
                THEN player
                ELSE board[v][u]]]

CountDiscs(board, player) ==
    Cardinality({c \in (1..N) \X (1..N) : board[c[1]][c[2]] = player})

get_score(board) == <<CountDiscs(board, 1), CountDiscs(board, 2)>>

(***************************************************************************)
(* agent.py                                                                *)
(***************************************************************************)
compute_utility(board, color) ==
    LET score == get_score(board)
    IN  IF color = 1 THEN score[1] - score[2] ELSE score[2] - score[1]

\* opponent = 1; if color == 1: opponent = 2
Opponent(color) == IF color = 1 THEN 2 ELSE 1

\* cache[board] = util
CachePut(cache, board, util) ==
    [b \in DOMAIN cache \cup {board} |-> IF b = board THEN util ELSE cache[b]]

\* `not limit`: only the integer 0 is falsy, so -1 never stops the descent.
NotLimit(limit) == limit = 0

\* Variant: the selector forgets to install a new dict.
KeepCache(cache) == cache

\* cache = dict()  (first statement of both selectors)
FreshCache(cache) == EmptyDict

\* The hit test `if caching: if board in cache`.
CacheHit(cache, board, caching) == caching # 0 /\ board \in DOMAIN cache

\* `if caching: cache[board] = util`
Store(cache, board, util, caching) ==
    IF caching # 0 THEN CachePut(cache, board, util) ELSE cache

Max(a, b) == IF a >= b THEN a ELSE b
Min(a, b) == IF a <= b THEN a ELSE b

\* A node call returns (move, util); the module global cache it leaves
\* behind is threaded through as the third field.
Ret(move, util, cache) == [move |-> move, util |-> util, cache |-> cache]

RECURSIVE minimax_min_node(_, _, _, _, _)
RECURSIVE minimax_max_node(_, _, _, _, _)
RECURSIVE MinimaxMinLoop(_, _, _, _, _, _, _, _, _)
RECURSIVE MinimaxMinUpdate(_, _, _, _, _, _, _, _, _)
RECURSIVE MinimaxMaxLoop(_, _, _, _, _, _, _, _, _)
RECURSIVE MinimaxMaxUpdate(_, _, _, _, _, _, _, _, _)
RECURSIVE alphabeta_min_node(_, _, _, _, _, _, _, _)
RECURSIVE alphabeta_max_node(_, _, _, _, _, _, _, _)
RECURSIVE AlphabetaMinLoop(_, _, _, _, _, _, _, _, _, _, _)
RECURSIVE AlphabetaMinUpdate(_, _, _, _, _, _, _, _, _, _, _)
RECURSIVE AlphabetaMinCheck(_, _, _, _, _, _, _, _, _, _, _)
RECURSIVE AlphabetaMaxLoop(_, _, _, _, _, _, _, _, _, _, _)
RECURSIVE AlphabetaMaxUpdate(_, _, _, _, _, _, _, _, _, _, _)
RECURSIVE AlphabetaMaxCheck(_, _, _, _, _, _, _, _, _, _, _)

(***************************************************************************)
(* MINIMAX                                                                 *)
(***************************************************************************)
\* if new_util < min_util
MinimaxMinBetter(new_util, min_util) == new_util < min_util

\* if new_util > max_util
MinimaxMaxBetter(new_util, max_util) == new_util > max_util

\* `if caching: cache[board] = util` followed by `return best_move, util`,
\* for the (best_move, util) and the cache the node's loop ended with.
StoreAndReturn(r, board, caching) ==
    Ret(r.move, r.util, Store(r.cache, board, r.util, caching))

\* The `for move in moves` loop of minimax_min_node, from the k-th move on.
MinimaxMinLoop(cache, board, color, limit, caching, moves, k, best_move, min_util) ==
    IF k > Len(moves) THEN Ret(best_move, min_util, cache)
    ELSE MinimaxMinUpdate(board, color, limit, caching, moves, k, best_move,
             min_util,
             minimax_max_node(cache,
                 play_move(board, Opponent(color), moves[k][1], moves[k][2]),
                 color, limit - 1, caching))

\* Loop body of minimax_min_node after the recursive call returned r:
\* if new_util < min_util: best_move, min_util = move, new_util
MinimaxMinUpdate(board, color, limit, caching, moves, k, best_move, min_util, r) ==
    IF MinimaxMinBetter(r.util, min_util)
    THEN MinimaxMinLoop(r.cache, board, color, limit, caching, moves, k + 1,
                        moves[k], r.util)
    ELSE MinimaxMinLoop(r.cache, board, color, limit, caching, moves, k + 1,
                        best_move, min_util)

\* Variant of the node's last two statements: the cache gets the board's
\* static utility, the caller gets min_util.
MinimaxMinStoreStatic(r, board, util, caching) ==
    Ret(r.move, r.util, Store(r.cache, board, util, caching))

\* Variant: the expanded node stores the board's static utility instead of
\* min_util.
minimax_min_node_static(cache, board, color, limit, caching) ==
    IF CacheHit(cache, board, caching) THEN Ret(None, cache[board], cache)
    ELSE LET moves == get_possible_moves(board, Opponent(color))
             util == compute_utility(board, color)
         IN  IF moves = <<>> \/ NotLimit(limit)
             THEN Ret(None, util, Store(cache, board, util, caching))
             ELSE MinimaxMinStoreStatic(
                      MinimaxMinLoop(cache, board, color, limit, caching,
                                     moves, 1, None, Inf),
                      board, util, caching)

minimax_min_node(cache, board, color, limit, caching) ==
    IF CacheHit(cache, board, caching) THEN Ret(None, cache[board], cache)
    ELSE LET moves == get_possible_moves(board, Opponent(color))
         IN  IF moves = <<>> \/ NotLimit(limit)
             THEN LET util == compute_utility(board, color)
                  IN  Ret(None, util, Store(cache, board, util, caching))
             ELSE StoreAndReturn(
                      MinimaxMinLoop(cache, board, color, limit, caching,
                                     moves, 1, None, Inf),
                      board, caching)

\* The `for move in moves` loop of minimax_max_node, from the k-th move on.
MinimaxMaxLoop(cache, board, color, limit, caching, moves, k, best_move, max_util) ==
    IF k > Len(moves) THEN Ret(best_move, max_util, cache)
    ELSE MinimaxMaxUpdate(board, color, limit, caching, moves, k, best_move,
             max_util,
             minimax_min_node(cache,
                 play_move(board, color, moves[k][1], moves[k][2]),
                 color, limit - 1, caching))

\* Loop body of minimax_max_node after the recursive call returned r:
\* if new_util > max_util: best_move, max_util = move, new_util
MinimaxMaxUpdate(board, color, limit, caching, moves, k, best_move, max_util, r) ==
    IF MinimaxMaxBetter(r.util, max_util)
    THEN MinimaxMaxLoop(r.cache, board, color, limit, caching, moves, k + 1,
                        moves[k], r.util)
    ELSE MinimaxMaxLoop(r.cache, board, color, limit, caching, moves, k + 1,
                        best_move, max_util)

minimax_max_node(cache, board, color, limit, caching) ==
    IF CacheHit(cache, board, caching) THEN Ret(None, cache[board], cache)
    ELSE LET moves == get_possible_moves(board, color)
         IN  IF moves = <<>> \/ NotLimit(limit)
             THEN LET util == compute_utility(board, color)
                  IN  Ret(None, util, Store(cache, board, util, caching))
             ELSE StoreAndReturn(
                      MinimaxMaxLoop(cache, board, color, limit, caching,
                                     moves, 1, None, NegInf),
                      board, caching)

\* The root call of select_move_minimax: cache = dict(), then
\* minimax_max_node(board, color, limit, caching).  The argument is the value
\* the module global holds when the selector is called.
MinimaxRoot(cache, board, color, limit, caching) ==
    minimax_max_node(FreshCache(cache), board, color, limit, caching)

\* select_move_minimax returns element [0] of the root call.
select_move_minimax(cache, board, color, limit, caching) ==
    MinimaxRoot(cache, board, color, limit, caching).move

(***************************************************************************)
(* ALPHA-BETA PRUNING                                                      *)
(***************************************************************************)
\* successors.append((play_move(board, player, move[0], move[1]), move))
Successors(board, player, moves) ==
    [k \in 1..Len(moves) |->
        <<play_move(board, player, moves[k][1], moves[k][2]), moves[k]>>]

\* successors.sort(key=lambda successor: compute_utility(successor[0], color)
\* [, reverse=True]): list.sort is stable, also with reverse=True, so
\* successors of equal key keep their enumeration order.
SortSuccessors(successors, color, reverse) ==
    LET n == Len(successors)
        key(k) == compute_utility(successors[k][1], color)
        before(a, b) == \/ (IF reverse THEN key(a) > key(b)
                                       ELSE key(a) < key(b))
                        \/ (key(a) = key(b) /\ a < b)
        pos(k) == Cardinality({a \in 1..n : before(a, k)}) + 1
    IN  [p \in 1..n |-> successors[CHOOSE k \in 1..n : pos(k) = p]]

\* if ordering: successors.sort(...)
Ordered(successors, color, reverse, ordering) ==
    IF ordering # 0 THEN SortSuccessors(successors, color, reverse)
    ELSE successors

\* if new_util < min_util
AlphabetaMinBetter(new_util, min_util) == new_util < min_util

\* Variant: a later successor of equal value replaces the best move.
AlphabetaMaxBetterOrEqual(new_util, max_util) == new_util >= max_util

\* if new_util > max_util
AlphabetaMaxBetter(new_util, max_util) == new_util > max_util

\* if min_util <= alpha: break
AlphaCutoff(min_util, alpha) == min_util <= alpha

\* Variant: the loop goes on when the running best value equals beta.
BetaCutoffStrict(max_util, beta) == max_util > beta

\* if max_util >= beta: break
BetaCutoff(max_util, beta) == max_util >= beta

\* beta = min(beta, min_util)
LowerBeta(beta, min_util) == Min(beta, min_util)

\* alpha = max(alpha, max_util)
RaiseAlpha(alpha, max_util) == Max(alpha, max_util)

\* The `for successor in successors` loop of alphabeta_min_node, from the
\* k-th successor on; alpha and beta are the node's own local variables.
AlphabetaMinLoop(cache, color, alpha, beta, limit, caching, ordering, successors, k, best_move, min_util) ==
    IF k > Len(successors) THEN Ret(best_move, min_util, cache)
    ELSE AlphabetaMinUpdate(color, alpha, beta, limit, caching, ordering,
             successors, k, best_move, min_util,
             alphabeta_max_node(cache, successors[k][1], color, alpha, beta,
                                limit - 1, caching, ordering))

\* Loop body of alphabeta_min_node after the recursive call returned r:
\* if new_util < min_util: best_move, min_util = successor[1], new_util
AlphabetaMinUpdate(color, alpha, beta, limit, caching, ordering, successors, k, best_move, min_util, r) ==
    AlphabetaMinCheck(r.cache, color, alpha, beta, limit, caching, ordering,
        successors, k,
        IF AlphabetaMinBetter(r.util, min_util) THEN successors[k][2]
                                                ELSE best_move,
        IF AlphabetaMinBetter(r.util, min_util) THEN r.util ELSE min_util)

\* End of the loop body of alphabeta_min_node:
\* if min_util <= alpha: break; beta = min(beta, min_util)
AlphabetaMinCheck(cache, color, alpha, beta, limit, caching, ordering, successors, k, best_move, min_util) ==
    IF AlphaCutoff(min_util, alpha) THEN Ret(best_move, min_util, cache)
    ELSE AlphabetaMinLoop(cache, color, alpha, LowerBeta(beta, min_util),
                          limit, caching, ordering, successors, k + 1,
                          best_move, min_util)

alphabeta_min_node(cache, board, color, alpha, beta, limit, caching, ordering) ==
    IF CacheHit(cache, board, caching) THEN Ret(None, cache[board], cache)
    ELSE LET moves == get_possible_moves(board, Opponent(color))
         IN  IF moves = <<>> \/ NotLimit(limit)
             THEN LET util == compute_utility(board, color)
                  IN  Ret(None, util, Store(cache, board, util, caching))
             ELSE StoreAndReturn(
                      AlphabetaMinLoop(cache, color, alpha, beta, limit,
                          caching, ordering,
                          Ordered(Successors(board, Opponent(color), moves),
                                  color, FALSE, ordering),
                          1, None, Inf),
                      board, caching)

\* The `for successor in successors` loop of alphabeta_max_node, from the
\* k-th successor on.
AlphabetaMaxLoop(cache, color, alpha, beta, limit, caching, ordering, successors, k, best_move, max_util) ==
    IF k > Len(successors) THEN Ret(best_move, max_util, cache)
    ELSE AlphabetaMaxUpdate(color, alpha, beta, limit, caching, ordering,
             successors, k, best_move, max_util,
             alphabeta_min_node(cache, successors[k][1], color, alpha, beta,
                                limit - 1, caching, ordering))

\* Loop body of alphabeta_max_node after the recursive call returned r:
\* if new_util > max_util: best_move, max_util = successor[1], new_util
AlphabetaMaxUpdate(color, alpha, beta, limit, caching, ordering, successors, k, best_move, max_util, r) ==
    AlphabetaMaxCheck(r.cache, color, alpha, beta, limit, caching, ordering,
        successors, k,
        IF AlphabetaMaxBetter(r.util, max_util) THEN successors[k][2]
                                                ELSE best_move,
        IF AlphabetaMaxBetter(r.util, max_util) THEN r.util ELSE max_util)

\* End of the loop body of alphabeta_max_node:
\* if max_util >= beta: break; alpha = max(alpha, max_util)
AlphabetaMaxCheck(cache, color, alpha, beta, limit, caching, ordering, successors, k, best_move, max_util) ==
    IF BetaCutoff(max_util, beta) THEN Ret(best_move, max_util, cache)
    ELSE AlphabetaMaxLoop(cache, color, RaiseAlpha(alpha, max_util), beta,
                          limit, caching, ordering, successors, k + 1,
                          best_move, max_util)

alphabeta_max_node(cache, board, color, alpha, beta, limit, caching, ordering) ==
    IF CacheHit(cache, board, caching) THEN Ret(None, cache[board], cache)
    ELSE LET moves == get_possible_moves(board, color)
         IN  IF moves = <<>> \/ NotLimit(limit)
             THEN LET util == compute_utility(board, color)
                  IN  Ret(None, util, Store(cache, board, util, caching))
             ELSE StoreAndReturn(
                      AlphabetaMaxLoop(cache, color, alpha, beta, limit,
                          caching, ordering,
                          Ordered(Successors(board, color, moves),
                                  color, TRUE, ordering),
                          1, None, NegInf),
                      board, caching)

\* The limit select_move_alphabeta hands to its root call.
AlphabetaRootLimit(limit) == limit - 1

\* The root call of select_move_alphabeta: cache = dict(), then
\* alphabeta_max_node(board, color, -inf, inf, limit - 1, caching, ordering).
AlphabetaRoot(cache, board, color, limit, caching, ordering) ==
    alphabeta_max_node(FreshCache(cache), board, color, NegInf, Inf,
                       AlphabetaRootLimit(limit), caching, ordering)

\* select_move_alphabeta returns element [0] of the root call.
select_move_alphabeta(cache, board, color, limit, caching, ordering) ==
    AlphabetaRoot(cache, board, color, limit, caching, ordering).move

(***************************************************************************)
(* The player process (run_ai) and the game it is fed.                     *)
(***************************************************************************)
\* The 4x4 starting position: dark on the anti-diagonal of the centre.
StartBoard ==
    [v \in 1..N |-> [u \in 1..N |->
        IF (u = N \div 2 /\ v = N \div 2 + 1) \/ (u = N \div 2 + 1 /\ v = N \div 2)
        THEN 1
        ELSE IF (u = N \div 2 /\ v = N \div 2) \/ (u = N \div 2 + 1 /\ v = N \div 2 + 1)
        THEN 2 ELSE 0]]

\* The moves already played when the player is started: dark and light
\* alternate from StartBoard, dark first.
Opening == << <<3, 2>>, <<1, 3>>, <<0, 1>>, <<3, 0>>, <<2, 3>>, <<3, 1>>,
              <<3, 3>> >>

RECURSIVE Replay(_, _, _)
Replay(board, player, moves) ==
    IF moves = <<>> THEN board
    ELSE Replay(play_move(board, player, moves[1][1], moves[1][2]),
                Opponent(player), Tail(moves))

\* Largest depth limit the player is started with.
MaxLimit == 5

\* Depth limits: -1 is run_ai's "Depth Limit is OFF".
Limits == (0 - 1)..MaxLimit

VARIABLES
    color,      \* run_ai: player color, 1 dark, 2 light
    limit,      \* run_ai: depth limit
    minimax,    \* run_ai: 1 selects minimax, otherwise alpha-beta
    caching,    \* run_ai: state caching flag
    ordering,   \* run_ai: node ordering flag
    board,      \* the board last read from the game manager
    turn,       \* the color to move on board
    cache,      \* the module global `cache`
    last,       \* the root call's (move, util) of the selector call made on
                \* board, if one has been made
    pc,         \* call-by-call execution: "idle", "running", "done"
    stack,      \* call-by-call execution: the active node calls, root first
    ret         \* call-by-call execution: the (move, util) last returned

vars == <<color, limit, minimax, caching, ordering, board, turn, cache, last,
          pc, stack, ret>>

machine == <<pc, stack, ret>>

config == <<color, limit, minimax, caching, ordering>>

\* stale records whether the module global held entries of an earlier call
\* when the selector was called.
NoCall == [called |-> FALSE, move |-> None, util |-> 0, stale |-> FALSE]

Called(r, stale) ==
    [called |-> TRUE, move |-> r.move, util |-> r.util, stale |-> stale]

\* run_ai has read its argument line and the first board.  The module global
\* cache is None until the first selector call replaces it; no code reads it
\* before that, so it is represented by the empty mapping.
Init ==
    /\ color \in {1, 2}
    /\ limit \in Limits
    /\ minimax \in {0, 1}
    /\ caching \in {0, 1}
    /\ ordering \in {0, 1}
    /\ board = Replay(StartBoard, 1, Opening)
    /\ turn = IF Len(Opening) % 2 = 0 THEN 1 ELSE 2
    /\ cache = EmptyDict
    /\ last = NoCall
    /\ pc = "idle"
    /\ stack = <<>>
    /\ ret = [move |-> None, util |-> 0]

\* run_ai: if (minimax == 1): select_move_minimax(board, color, limit, caching)
SelectMoveMinimax ==
    /\ minimax = 1
    /\ LET r == MinimaxRoot(cache, board, color, limit, caching)
       IN  /\ cache' = r.cache
           /\ last' = Called(r, cache # EmptyDict)
    /\ UNCHANGED <<config, board, turn, machine>>

\* run_ai: else: select_move_alphabeta(board, color, limit, caching, ordering)
SelectMoveAlphabeta ==
    /\ minimax # 1
    /\ LET r == AlphabetaRoot(cache, board, color, limit, caching, ordering)
       IN  /\ cache' = r.cache
           /\ last' = Called(r, cache # EmptyDict)
    /\ UNCHANGED <<config, board, turn, machine>>

\* run_ai reads the next board: the game manager has applied a legal move of
\* the color to move.
ReceiveBoard ==
    /\ pc = "idle"
    /\ \E k \in 1..Len(get_possible_moves(board, turn)) :
          LET move == get_possible_moves(board, turn)[k]
          IN  board' = play_move(board, turn, move[1], move[2])
    /\ turn' = Opponent(turn)
    /\ last' = NoCall
    /\ UNCHANGED <<config, cache, machine>>

\* The color to move has no legal move while the other color has one: the
\* turn passes.
PassTurn ==
    /\ pc = "idle"
    /\ get_possible_moves(board, turn) = <<>>
    /\ get_possible_moves(board, Opponent(turn)) # <<>>
    /\ turn' = Opponent(turn)
    /\ UNCHANGED <<config, board, cache, last, machine>>

Next == SelectMoveMinimax \/ SelectMoveAlphabeta \/ ReceiveBoard \/ PassTurn

Spec == Init /\ [][Next]_vars

(***************************************************************************)
(* Call-by-call execution of one selector call.  Each element of stack is  *)
(* one active call of a node function with its local variables; alpha and *)
(* beta are unused by the minimax functions and stay at -inf and inf.      *)
(***************************************************************************)
\* Bound on the depth of the call stack: no further call is made beyond it.
\* (The interpreter's own limit, sys.getrecursionlimit(), is 1000 by default.)
RecursionLimit == 16

IsMaxNode(fn) == fn \in {"minimax_max_node", "alphabeta_max_node"}

IsAlphabeta(fn) == fn \in {"alphabeta_max_node", "alphabeta_min_node"}

\* The function a node function recurses into.
Callee(fn) ==
    CASE fn = "minimax_max_node" -> "minimax_min_node"
      [] fn = "minimax_min_node" -> "minimax_max_node"
      [] fn = "alphabeta_max_node" -> "alphabeta_min_node"
      [] fn = "alphabeta_min_node" -> "alphabeta_max_node"

\* The color whose moves a node enumerates and plays.
Mover(fn) == IF IsMaxNode(fn) THEN color ELSE Opponent(color)

\* A call that has just been made: parameters bound, body not yet started.
NewFrame(fn, b, alpha, beta, lim) ==
    [fn |-> fn, board |-> b, alpha |-> alpha, beta |-> beta, limit |-> lim,
     at |-> "entry", moves |-> <<>>, successors |-> <<>>, k |-> 0,
     best_move |-> None, best_util |-> 0]

Top == stack[Len(stack)]

Pop == SubSeq(stack, 1, Len(stack) - 1)

SetTop(f) == [stack EXCEPT ![Len(stack)] = f]

\* `return move, util` of the innermost call.
Return(move, util) ==
    /\ stack' = Pop
    /\ ret' = [move |-> move, util |-> util]
    /\ pc' = IF Len(stack) = 1 THEN "done" ELSE "running"

\* Variant: the loop body passes board instead of the successor board.
SameBoard(f) == f.board

\* The board the innermost call passes to the call of its k-th iteration:
\* new_board in the minimax functions, successor[0] in the alpha-beta ones.
ChildBoard(f) ==
    IF IsAlphabeta(f.fn) THEN f.successors[f.k][1]
    ELSE play_move(f.board, Mover(f.fn), f.moves[f.k][1], f.moves[f.k][2])

\* The move of the k-th iteration: move, or successor[1].
ChildMove(f) ==
    IF IsAlphabeta(f.fn) THEN f.successors[f.k][2] ELSE f.moves[f.k]

\* Whether the value a call returned replaces the running best value.
Better(f, new_util) ==
    CASE f.fn = "minimax_max_node" -> MinimaxMaxBetter(new_util, f.best_util)
      [] f.fn = "minimax_min_node" -> MinimaxMinBetter(new_util, f.best_util)
      [] f.fn = "alphabeta_max_node" ->
             AlphabetaMaxBetter(new_util, f.best_util)
      [] f.fn = "alphabeta_min_node" ->
             AlphabetaMinBetter(new_util, f.best_util)

\* The `break` tests of the alpha-beta loops.
Cutoff(f, util) ==
    CASE f.fn = "alphabeta_max_node" -> BetaCutoff(util, f.beta)
      [] f.fn = "alphabeta_min_node" -> AlphaCutoff(util, f.alpha)
      [] OTHER -> FALSE

\* select_move_minimax: cache = dict(); minimax_max_node(board, color, limit,
\* caching) is called.
StartMinimax ==
    /\ pc = "idle"
    /\ minimax = 1
    /\ cache' = FreshCache(cache)
    /\ stack' = <<NewFrame("minimax_max_node", board, NegInf, Inf, limit)>>
    /\ pc' = "running"
    /\ UNCHANGED <<config, board, turn, last, ret>>

\* select_move_alphabeta: cache = dict(); alphabeta_max_node(board, color,
\* -inf, inf, limit - 1, caching, ordering) is called.
StartAlphabeta ==
    /\ pc = "idle"
    /\ minimax # 1
    /\ cache' = FreshCache(cache)
    /\ stack' = <<NewFrame("alphabeta_max_node", board, NegInf, Inf,
                           AlphabetaRootLimit(limit))>>
    /\ pc' = "running"
    /\ UNCHANGED <<config, board, turn, last, ret>>

\* if caching: if board in cache: return None, cache[board]
EnterCached ==
    /\ pc = "running"
    /\ Top.at = "entry"
    /\ CacheHit(cache, Top.board, caching)
    /\ Return(None, cache[Top.board])
    /\ UNCHANGED <<config, board, turn, last, cache>>

\* if not moves or not limit: the node is evaluated and returns.
EnterLeaf ==
    /\ pc = "running"
    /\ Top.at = "entry"
    /\ ~CacheHit(cache, Top.board, caching)
    /\ LET moves == get_possible_moves(Top.board, Mover(Top.fn))
           util == compute_utility(Top.board, color)
       IN  /\ moves = <<>> \/ NotLimit(Top.limit)
           /\ cache' = Store(cache, Top.board, util, caching)
           /\ Return(None, util)
    /\ UNCHANGED <<config, board, turn, last>>

\* Otherwise the node is expanded: the alpha-beta functions build (and sort)
\* the successor list, and the loop variables are initialised.
EnterExpand ==
    /\ pc = "running"
    /\ Top.at = "entry"
    /\ ~CacheHit(cache, Top.board, caching)
    /\ \E moves \in {get_possible_moves(Top.board, Mover(Top.fn))} :
          /\ ~(moves = <<>> \/ NotLimit(Top.limit))
          /\ \E successors \in
                   {IF IsAlphabeta(Top.fn)
                    THEN Successors(Top.board, Mover(Top.fn), moves)
                    ELSE <<>>} :
                stack' = SetTop(
                   [Top EXCEPT
                      !.at = "loop",
                      !.moves = moves,
                      !.successors = Ordered(successors, color,
                                             IsMaxNode(Top.fn), ordering),
                      !.k = 1,
                      !.best_move = None,
                      !.best_util = IF IsMaxNode(Top.fn) THEN NegInf ELSE Inf])
    /\ UNCHANGED <<config, board, turn, last, cache, pc, ret>>

\* The loop body calls the other node function on the next successor with
\* the caller's current alpha and beta and limit - 1.
Descend ==
    /\ pc = "running"
    /\ Top.at = "loop"
    /\ Top.k <= Len(Top.moves)
    /\ Len(stack) < RecursionLimit
    /\ stack' = Append(SetTop([Top EXCEPT !.at = "wait"]),
                       NewFrame(Callee(Top.fn), ChildBoard(Top),
                                Top.alpha, Top.beta, Top.limit - 1))
    /\ UNCHANGED <<config, board, turn, last, cache, pc, ret>>

\* The call made by the loop body has returned and the node goes on to the
\* next iteration: best_move and the running best value are updated, and in
\* the alpha-beta functions the node's own alpha or beta is.
Resume ==
    /\ pc = "running"
    /\ Top.at = "wait"
    /\ LET better == Better(Top, ret.util)
           bm == IF better THEN ChildMove(Top) ELSE Top.best_move
           bu == IF better THEN ret.util ELSE Top.best_util
       IN  /\ ~Cutoff(Top, bu)
           /\ stack' = SetTop(
                 [Top EXCEPT
                    !.at = "loop",
                    !.k = Top.k + 1,
                    !.best_move = bm,
                    !.best_util = bu,
                    !.alpha = IF Top.fn = "alphabeta_max_node"
                              THEN RaiseAlpha(Top.alpha, bu) ELSE Top.alpha,
                    !.beta = IF Top.fn = "alphabeta_min_node"
                             THEN LowerBeta(Top.beta, bu) ELSE Top.beta])
    /\ UNCHANGED <<config, board, turn, last, cache, pc, ret>>

\* The call made by the loop body has returned and the updated running best
\* value meets the break test: the node stores its value and returns.
ResumeCutoff ==
    /\ pc = "running"
    /\ Top.at = "wait"
    /\ LET better == Better(Top, ret.util)
           bm == IF better THEN ChildMove(Top) ELSE Top.best_move
           bu == IF better THEN ret.util ELSE Top.best_util
       IN  /\ Cutoff(Top, bu)
           /\ cache' = Store(cache, Top.board, bu, caching)
           /\ Return(bm, bu)
    /\ UNCHANGED <<config, board, turn, last>>

\* The loop has run out of successors: the node stores its value and returns.
Finish ==
    /\ pc = "running"
    /\ Top.at = "loop"
    /\ Top.k > Len(Top.moves)
    /\ cache' = Store(cache, Top.board, Top.best_util, caching)
    /\ Return(Top.best_move, Top.best_util)
    /\ UNCHANGED <<config, board, turn, last>>

Step ==
    \/ EnterCached \/ EnterLeaf \/ EnterExpand
    \/ Descend \/ Resume \/ ResumeCutoff \/ Finish

NextStep ==
    \/ ReceiveBoard \/ PassTurn
    \/ StartMinimax \/ StartAlphabeta
    \/ Step

SpecStep == Init /\ [][NextStep]_vars

\* Python runs a started call to its end: a step that can be taken is taken.
SpecStepFair == SpecStep /\ WF_vars(StartMinimax \/ StartAlphabeta \/ Step)

(***************************************************************************)
(* Agreement of the two renderings of the code: a finished call-by-call    *)
(* execution has returned what the node operators compute.                 *)
(***************************************************************************)
FirstCall ==
    IF minimax = 1
    THEN MinimaxRoot(EmptyDict, board, color, limit, caching)
    ELSE AlphabetaRoot(EmptyDict, board, color, limit, caching, ordering)

StepAgreesWithCall ==
    pc = "done" =>
        /\ ret.move = FirstCall.move
        /\ ret.util = FirstCall.util
        /\ cache = FirstCall.cache

(***************************************************************************)
(* Properties                                                              *)
(***************************************************************************)
LegalMoves(b, player) ==
    {get_possible_moves(b, player)[k] :
        k \in 1..Len(get_possible_moves(b, player))}

\* C1: for a depth limit d >= 1 the root value of select_move_minimax(board,
\* color, d, caching) equals the root value of select_move_alphabeta(board,
\* color, d, caching, ordering), for both settings of ordering.
C1_SameLimitSameValue ==
    (last.called /\ minimax = 1 /\ limit >= 1) =>
        \A o \in {0, 1} :
            last.util =
                AlphabetaRoot(cache, board, color, limit, caching, o).util

\* C2: for a depth limit >= 1 a selector returns None exactly when the acting
\* color has no legal move, and otherwise returns one of the legal moves.
C2_NoneIffNoLegalMove ==
    (last.called /\ limit >= 1) =>
        /\ last.move = None <=> LegalMoves(board, color) = {}
        /\ LegalMoves(board, color) # {} =>
               last.move \in LegalMoves(board, color)

\* C3: select_move_alphabeta returns the same move and the same root value
\* with caching enabled as with caching disabled.
C3_AlphabetaCachingTransparent ==
    (last.called /\ minimax # 1) =>
        LET r == AlphabetaRoot(cache, board, color, limit, 1 - caching,
                               ordering)
        IN  last.move = r.move /\ last.util = r.util

\* C4: select_move_minimax returns the same move and the same root value
\* with caching enabled as with caching disabled.
C4_MinimaxCachingTransparent ==
    (last.called /\ minimax = 1) =>
        LET r == MinimaxRoot(cache, board, color, limit, 1 - caching)
        IN  last.move = r.move /\ last.util = r.util

\* The number of move sequences, player moving first, that lead from board
\* from to board b.
RECURSIVE Paths(_, _, _)
Paths(from, player, b) ==
    IF from = b THEN 1
    ELSE IF CountDiscs(from, 0) <= CountDiscs(b, 0) THEN 0
    ELSE LET moves == get_possible_moves(from, player)
             via(k) == Paths(play_move(from, player, moves[k][1], moves[k][2]),
                             Opponent(player), b)
             sum[k \in 0..Len(moves)] ==
                 IF k = 0 THEN 0 ELSE sum[k - 1] + via(k)
         IN  sum[Len(moves)]

\* The search has cached a board that it reached along two different move
\* sequences and expanded: the second visit was answered from the cache.
C4_Witness ==
    /\ last.called /\ minimax = 1 /\ caching = 1 /\ limit >= 1
    /\ last.move # None
    /\ \E b \in DOMAIN cache :
          /\ Paths(board, color, b) >= 2
          /\ CountDiscs(board, 0) - CountDiscs(b, 0) < limit
          /\ cache[b] # compute_utility(b, color)

\* C5: select_move_alphabeta computes the same root value with ordering
\* enabled as with ordering disabled, for either setting of caching.
C5_OrderingSameValue ==
    (last.called /\ minimax # 1) =>
        last.util = AlphabetaRoot(cache, board, color, limit, caching,
                                  1 - ordering).util

\* C6: whatever calls were made before, a selector call returns what the same
\* call returns as the first call ever made and leaves only its own entries
\* in the cache; repeating it on the same board returns the same again.
C6_EachCallAsFirstCall ==
    /\ [](last.called =>
             /\ last.move = FirstCall.move
             /\ last.util = FirstCall.util
             /\ cache = FirstCall.cache)
    /\ [][(last.called /\ last'.called /\ board' = board) =>
             (last'.move = last.move /\ last'.util = last.util)]_vars

C6_Witness ==
    /\ last.called /\ last.stale /\ caching = 1
    /\ last.move # None
    /\ cache # EmptyDict

\* C10: with caching and ordering off, select_move_alphabeta with limit d + 1
\* returns the move select_move_minimax returns with limit d >= 1, which is
\* the first legal move in enumeration order that attains the minimax value.
ChildValue(m) ==
    minimax_min_node(EmptyDict, play_move(board, color, m[1], m[2]), color,
                     limit - 1, 0).util

C10_AlphabetaMoveIsMinimaxMove ==
    (last.called /\ minimax = 1 /\ caching = 0 /\ limit >= 1) =>
        LET r == AlphabetaRoot(cache, board, color, limit + 1, 0, 0)
            moves == get_possible_moves(board, color)
        IN  /\ r.move = last.move
            /\ r.util = last.util
            /\ moves # <<>> =>
                 \E k \in 1..Len(moves) :
                    /\ moves[k] = r.move
                    /\ ChildValue(moves[k]) = r.util
                    /\ \A j \in 1..Len(moves) :
                          /\ ChildValue(moves[j]) <= r.util
                          /\ j < k => ChildValue(moves[j]) < r.util

\* A call with several legal moves of which a later one ties the chosen one.
C10_Witness ==
    /\ last.called /\ minimax = 1 /\ caching = 0 /\ limit >= 2
    /\ last.move # None
    /\ \E m \in LegalMoves(board, color) :
          m # last.move /\ ChildValue(m) = last.util

\* C7: for a depth limit d >= 0 every node call receives a remaining depth
\* >= 0 that is one less than its caller's, no node is expanded at remaining
\* depth zero, and no board more than d plies below the root is generated.
C7_RemainingDepthNeverNegative ==
    (pc = "running" /\ limit >= 0) =>
        \A i \in 1..Len(stack) :
            /\ stack[i].limit >= 0
            /\ i > 1 => stack[i].limit = stack[i - 1].limit - 1
            /\ i - 1 <= limit
            /\ stack[i].at # "entry" => (stack[i].limit # 0 /\ i <= limit)

\* C8: every selector call that is started returns a result, also with the
\* depth limit off (-1).
C8_EveryCallReturns == (pc = "running") ~> (pc = "done")

C8_Witness ==
    /\ pc = "done" /\ limit = 0 - 1
    /\ ret.move # None
    /\ board = Replay(StartBoard, 1, Opening)

\* C9: in alphabeta_max_node the node returns as soon as the running best
\* value is >= beta and otherwise goes on with alpha raised to the running
\* best value if that is higher; alphabeta_min_node does the same with the
\* running best value <= alpha and beta lowered.  A call is made with the
\* caller's current alpha and beta, every call has alpha < beta, and no step
\* of a call changes the alpha or beta of the calls below it on the stack.
C9_CutoffAndWindow ==
    [][/\ (pc = "running" /\ Top.at = "wait"
                /\ Top.fn = "alphabeta_max_node") =>
              LET best == IF ret.util > Top.best_util THEN ret.util
                                                      ELSE Top.best_util
              IN  IF best >= Top.beta
                  THEN stack' = Pop /\ ret'.util = best
                  ELSE /\ Len(stack') = Len(stack)
                       /\ stack'[Len(stack)].k = Top.k + 1
                       /\ stack'[Len(stack)].alpha =
                              (IF best > Top.alpha THEN best ELSE Top.alpha)
                       /\ stack'[Len(stack)].beta = Top.beta
       /\ (pc = "running" /\ Top.at = "wait"
                /\ Top.fn = "alphabeta_min_node") =>
              LET best == IF ret.util < Top.best_util THEN ret.util
                                                      ELSE Top.best_util
              IN  IF best <= Top.alpha
                  THEN stack' = Pop /\ ret'.util = best
                  ELSE /\ Len(stack') = Len(stack)
                       /\ stack'[Len(stack)].k = Top.k + 1
                       /\ stack'[Len(stack)].beta =
                              (IF best < Top.beta THEN best ELSE Top.beta)
                       /\ stack'[Len(stack)].alpha = Top.alpha
       /\ (Len(stack) >= 1 /\ Len(stack') = Len(stack) + 1) =>
              /\ stack'[Len(stack')].alpha = Top.alpha
              /\ stack'[Len(stack')].beta = Top.beta
       /\ \A i \in 1..(Len(stack) - 1) :
              i <= Len(stack') =>
                  /\ stack'[i].alpha = stack[i].alpha
                  /\ stack'[i].beta = stack[i].beta
       /\ \A i \in 1..Len(stack') :
              IsAlphabeta(stack'[i].fn) => stack'[i].alpha < stack'[i].beta
      ]_vars

\* A max node two calls below the root is about to stop on a beta cutoff
\* while successors remain.
C9_Witness ==
    /\ pc = "running" /\ Top.at = "wait" /\ Top.fn = "alphabeta_max_node"
    /\ Len(stack) >= 3
    /\ ret.util >= Top.beta
    /\ Top.k < Len(Top.moves)

====
